---- MODULE Spec2Model ----
(***************************************************************************)
(* Compliance Analysis Engine of the GRC AI service.                       *)
(*                                                                         *)
(* One GapAnalysisService, one RiskPredictionService, one                   *)
(* DocumentAnalyzerService and one RecommendationEngine instance, driven   *)
(* by a caller.  Python dicts are functions from field names to values (a  *)
(* field that is not set is not in the DOMAIN); Python lists are           *)
(* sequences; Python strings are strings.  Floating point results are      *)
(* kept as scaled integers: the scale is part of each field's name in the  *)
(* comments below.  Timestamps (datetime.now()) are left out of results.   *)
(***************************************************************************)
EXTENDS Integers, Sequences, FiniteSets, TLC

VARIABLES
    frameworks,          \* GapAnalysisService.frameworks
    control_library,     \* RecommendationEngine.control_library
    framework_mappings,  \* RecommendationEngine.framework_mappings
    op,                  \* name of the last call made ("none" after construction)
    args,                \* the arguments of the last call
    result               \* its outcome: [outcome |-> "return" | "raise", value |-> ...]

vars == <<frameworks, control_library, framework_mappings, op, args, result>>

catalogs == <<frameworks, control_library, framework_mappings>>

(***************************************************************************)
(* Generic helpers: dict.get, dict[k] = v, list slices, bounded lists.     *)
(***************************************************************************)
Get(d, k, default) == IF k \in DOMAIN d THEN d[k] ELSE default

Put(d, k, v) == [x \in (DOMAIN d) \cup {k} |-> IF x = k THEN v ELSE d[x]]

Take(s, n) == SubSeq(s, 1, IF Len(s) < n THEN Len(s) ELSE n)

SeqsUpTo(S, n) == UNION {[1..k -> S] : k \in 0..n}

Returned(v) == [outcome |-> "return", value |-> v]

Raised(exc, msg) == [outcome |-> "raise", value |-> [exception |-> exc, message |-> msg]]

\* round(n/d) to the nearest integer, ties to even (Python's round on an exact tie)
RoundDiv(n, d) ==
    LET q == n \div d
        r == n % d
    IN  IF 2 * r > d \/ (2 * r = d /\ q % 2 = 1) THEN q + 1 ELSE q

(***************************************************************************)
(* GapAnalysisService: the per-framework requirement catalogs.             *)
(***************************************************************************)
LoadIso27001Controls ==
    << [id |-> "A.5.1", name |-> "Information Security Policies",
        category |-> "Organizational Controls",
        description |-> "Policies for information security", priority |-> "Critical"],
       [id |-> "A.5.2", name |-> "Roles and Responsibilities",
        category |-> "Organizational Controls",
        description |-> "Define and communicate security roles", priority |-> "High"],
       [id |-> "A.8.1", name |-> "User Endpoint Devices",
        category |-> "Technological Controls",
        description |-> "Protect information on endpoint devices", priority |-> "High"] >>

LoadSoc2Controls ==
    << [id |-> "CC1.1", name |-> "Control Environment", category |-> "Common Criteria",
        description |-> "Demonstrates commitment to integrity and ethical values",
        priority |-> "Critical"],
       [id |-> "CC6.1", name |-> "Logical and Physical Access Controls",
        category |-> "Common Criteria",
        description |-> "Restrict access to authorized users", priority |-> "Critical"] >>

\* gap_analysis.py line 79 reads  priority': 'High'  (the key's opening quote is
\* missing); it is read as the entry 'priority': 'High' like every other record
LoadGdprRequirements ==
    << [id |-> "Art.32", name |-> "Security of Processing", category |-> "Security",
        description |-> "Implement appropriate technical and organizational measures",
        priority |-> "Critical"],
       [id |-> "Art.33", name |-> "Breach Notification", category |-> "Incident Management",
        description |-> "Notify supervisory authority of data breaches",
        priority |-> "High"] >>

GapServiceInit ==
    [fw \in {"iso27001", "soc2", "gdpr"} |->
        CASE fw = "iso27001" -> LoadIso27001Controls
          [] fw = "soc2"     -> LoadSoc2Controls
          [] fw = "gdpr"     -> LoadGdprRequirements]

(***************************************************************************)
(* GapAnalysisService.analyze_gaps                                         *)
(***************************************************************************)
\* a gap dict that rates the missing requirement as easy and cheap to close
GapOfWithEffort(req_ctrl) ==
    [control_id |-> req_ctrl.id, control_name |-> req_ctrl.name,
     category |-> req_ctrl.category, description |-> req_ctrl.description,
     priority |-> req_ctrl.priority, status |-> "Missing",
     complexity |-> "Low", cost |-> "Low"]

\* the gap dict built for one missing requirement
GapOf(req_ctrl) ==
    [control_id |-> req_ctrl.id, control_name |-> req_ctrl.name,
     category |-> req_ctrl.category, description |-> req_ctrl.description,
     priority |-> req_ctrl.priority, status |-> "Missing"]

RECURSIVE CollectGapsPrepending(_, _)
CollectGapsPrepending(required_controls, implemented_ids) ==
    IF required_controls = <<>> THEN <<>>
    ELSE LET req_ctrl == Head(required_controls)
             rest == CollectGapsPrepending(Tail(required_controls), implemented_ids)
         IN  IF req_ctrl.id \notin implemented_ids
             THEN rest \o <<GapOf(req_ctrl)>>
             ELSE rest

RECURSIVE CollectGaps(_, _)
CollectGaps(required_controls, implemented_ids) ==
    IF required_controls = <<>> THEN <<>>
    ELSE LET req_ctrl == Head(required_controls)
             rest == CollectGaps(Tail(required_controls), implemented_ids)
         IN  IF req_ctrl.id \notin implemented_ids
             THEN <<GapOf(req_ctrl)>> \o rest
             ELSE rest

\* [g for g in gaps if g['priority'] == p]
WithPriority(gaps, p) == SelectSeq(gaps, LAMBDA g : g.priority = p)

\* round(completion_rate, 2), kept in hundredths of a percent
CompletionRateTruncated(total_implemented, total_required) ==
    IF total_required > 0
    THEN (total_implemented * 100 * 100) \div total_required
    ELSE 0

CompletionRate(total_implemented, total_required) ==
    IF total_required > 0
    THEN RoundDiv(total_implemented * 100 * 100, total_required)
    ELSE 0

\* the categories of the gaps, in first-encounter order (dict insertion order)
RECURSIVE CategoryOrder(_, _)
CategoryOrder(gaps, seen) ==
    IF gaps = <<>> THEN <<>>
    ELSE IF Head(gaps).category \in seen
         THEN CategoryOrder(Tail(gaps), seen)
         ELSE <<Head(gaps).category>> \o
              CategoryOrder(Tail(gaps), seen \cup {Head(gaps).category})

CategoryCount(gaps, cat) == Len(SelectSeq(gaps, LAMBDA g : g.category = cat))

\* a sort by ascending count
RECURSIVE InsertByCountAscending(_, _)
InsertByCountAscending(sorted, item) ==
    IF sorted = <<>> THEN <<item>>
    ELSE IF Head(sorted).count <= item.count
         THEN <<Head(sorted)>> \o InsertByCountAscending(Tail(sorted), item)
         ELSE <<item>> \o sorted

\* sorted(items, key=count, reverse=True): stable, descending
RECURSIVE InsertByCount(_, _)
InsertByCount(sorted, item) ==
    IF sorted = <<>> THEN <<item>>
    ELSE IF Head(sorted).count >= item.count
         THEN <<Head(sorted)>> \o InsertByCount(Tail(sorted), item)
         ELSE <<item>> \o sorted

RECURSIVE SortByCount(_)
SortByCount(items) ==
    IF items = <<>> THEN <<>>
    ELSE InsertByCount(SortByCount(SubSeq(items, 1, Len(items) - 1)), items[Len(items)])

\* each line is kept as its kind and the numbers and names put into the text
generate_recommendations(gaps) ==
    IF gaps # <<>>
    THEN LET critical == WithPriority(gaps, "Critical")
             order == CategoryOrder(gaps, {})
             categories == [i \in DOMAIN order |->
                               [category |-> order[i], count |-> CategoryCount(gaps, order[i])]]
             ranked == SortByCount(categories)
             urgent == IF critical # <<>>
                       THEN << [line |-> "URGENT", count |-> Len(critical), category |-> ""] >>
                       ELSE <<>>
         IN  urgent \o
             [i \in DOMAIN ranked |->
                 [line |-> "Focus on", count |-> ranked[i].count,
                  category |-> ranked[i].category]]
    ELSE << [line |-> "Great! No gaps identified", count |-> 0, category |-> ""] >>

\* raise ValueError(f"Unknown framework: {framework}")
UnknownFrameworkReturned == Returned([error |-> "Unknown framework"])

UnknownFrameworkError == Raised("ValueError", "Unknown framework")

analyze_gaps(framework, current_controls) ==
    IF framework \notin DOMAIN frameworks
    THEN UnknownFrameworkError
    ELSE IF \E i \in DOMAIN current_controls : "id" \notin DOMAIN current_controls[i]
    THEN Raised("KeyError", "id")
    ELSE
      LET required_controls == frameworks[framework]
          implemented_ids == {current_controls[i].id : i \in DOMAIN current_controls}
          gaps == CollectGaps(required_controls, implemented_ids)
          total_required == Len(required_controls)
          total_implemented == total_required - Len(gaps)
      IN  Returned(
            [framework |-> framework,
             completion_rate |-> CompletionRate(total_implemented, total_required),
             total_required |-> total_required,
             total_implemented |-> total_implemented,
             total_gaps |-> Len(gaps),
             critical_gaps |-> Len(WithPriority(gaps, "Critical")),
             high_priority_gaps |-> Len(WithPriority(gaps, "High")),
             gaps |-> gaps,
             recommendations |-> generate_recommendations(gaps)])

GenerateRecommendations(gaps) ==
    /\ op' = "_generate_recommendations"
    /\ args' = [gaps |-> gaps]
    /\ result' = Returned(generate_recommendations(gaps))
    /\ UNCHANGED catalogs

AnalyzeGaps(framework, current_controls) ==
    /\ op' = "analyze_gaps"
    /\ args' = [framework |-> framework, current_controls |-> current_controls]
    /\ result' = analyze_gaps(framework, current_controls)
    /\ UNCHANGED catalogs

(***************************************************************************)
(* RiskPredictionService.calculate_risk_score                              *)
(*                                                                         *)
(* control_effectiveness is a whole percentage and the threat multipliers  *)
(* have one decimal, so every product below is a whole number of           *)
(* ten-thousandths: adjusted_likelihood is kept in thousandths,            *)
(* threat_multiplier in tenths, final_score in ten-thousandths.            *)
(***************************************************************************)
\* threat_multipliers.get(threat_level, 1.0), in tenths
ThreatMultiplierSwapped(threat_level) ==
    CASE threat_level = "low"      -> 10
      [] threat_level = "medium"   -> 8
      [] threat_level = "high"     -> 13
      [] threat_level = "critical" -> 15
      [] OTHER                     -> 10

ThreatMultiplier(threat_level) ==
    CASE threat_level = "low"      -> 8
      [] threat_level = "medium"   -> 10
      [] threat_level = "high"     -> 13
      [] threat_level = "critical" -> 15
      [] OTHER                     -> 10

\* likelihood * (1 - (control_effectiveness / 100 * 0.4)), in thousandths
AdjustedLikelihood(likelihood, control_effectiveness) ==
    likelihood * (1000 - 4 * control_effectiveness)

\* adjusted_likelihood * impact * threat_multiplier, in ten-thousandths
FinalScore(likelihood, impact, control_effectiveness, threat_level) ==
    AdjustedLikelihood(likelihood, control_effectiveness) * impact
        * ThreatMultiplier(threat_level)

\* the if/elif chain on final_score (in ten-thousandths)
ClassifyStrict(final_score) ==
    IF final_score > 150000 THEN [classification |-> "Critical", priority |-> 1]
    ELSE IF final_score > 100000 THEN [classification |-> "High", priority |-> 2]
    ELSE IF final_score > 50000 THEN [classification |-> "Medium", priority |-> 3]
    ELSE [classification |-> "Low", priority |-> 4]

Classify(final_score) ==
    IF final_score >= 150000 THEN [classification |-> "Critical", priority |-> 1]
    ELSE IF final_score >= 100000 THEN [classification |-> "High", priority |-> 2]
    ELSE IF final_score >= 50000 THEN [classification |-> "Medium", priority |-> 3]
    ELSE [classification |-> "Low", priority |-> 4]

\* risk_score and likelihood in hundredths, confidence in tenths
calculate_risk_score(risk_data) ==
    LET likelihood == Get(risk_data, "likelihood", 3)
        impact == Get(risk_data, "impact", 3)
        control_effectiveness == Get(risk_data, "control_effectiveness", 70)
        threat_level == Get(risk_data, "threat_level", "medium")
        final_score == FinalScore(likelihood, impact, control_effectiveness, threat_level)
        class == Classify(final_score)
    IN  Returned(
          [risk_score |-> RoundDiv(final_score, 100),
           classification |-> class.classification,
           priority |-> class.priority,
           likelihood |-> RoundDiv(AdjustedLikelihood(likelihood, control_effectiveness), 10),
           impact |-> impact,
           confidence |-> control_effectiveness * 10])

CalculateRiskScore(risk_data) ==
    /\ op' = "calculate_risk_score"
    /\ args' = [risk_data |-> risk_data]
    /\ result' = calculate_risk_score(risk_data)
    /\ UNCHANGED catalogs

(***************************************************************************)
(* RecommendationEngine: the control library and the framework mappings.   *)
(* A dict whose iteration order the code relies on (framework_map.items(), *)
(* risk_levels.items()) is the sequence of its items in insertion order.   *)
(***************************************************************************)
LoadControlLibrary ==
    [category \in {"access_control", "data_protection", "incident_response"} |->
        CASE category = "access_control" ->
               << [id |-> "AC-001", name |-> "Multi-Factor Authentication",
                   description |-> "Implement MFA for all user accounts",
                   effectiveness |-> 95, complexity |-> "Medium", cost |-> "Low"],
                  [id |-> "AC-002", name |-> "Role-Based Access Control",
                   description |-> "Implement RBAC for least privilege",
                   effectiveness |-> 90, complexity |-> "Medium", cost |-> "Medium"] >>
          [] category = "data_protection" ->
               << [id |-> "DP-001", name |-> "Data Encryption at Rest",
                   description |-> "Encrypt sensitive data in storage",
                   effectiveness |-> 92, complexity |-> "Low", cost |-> "Low"],
                  [id |-> "DP-002", name |-> "Data Encryption in Transit",
                   description |-> "Use TLS 1.3 for all data transmission",
                   effectiveness |-> 94, complexity |-> "Low", cost |-> "Low"] >>
          [] category = "incident_response" ->
               << [id |-> "IR-001", name |-> "Incident Response Plan",
                   description |-> "Documented IR procedures",
                   effectiveness |-> 88, complexity |-> "Medium", cost |-> "Medium"] >>]

LoadFrameworkMappings ==
    [fw \in {"iso27001", "soc2"} |->
        CASE fw = "iso27001" ->
               << [requirement |-> "A.9", category |-> "access_control"],
                  [requirement |-> "A.10", category |-> "data_protection"],
                  [requirement |-> "A.16", category |-> "incident_response"] >>
          [] fw = "soc2" ->
               << [requirement |-> "CC6", category |-> "access_control"],
                  [requirement |-> "CC7", category |-> "data_protection"],
                  [requirement |-> "CC8", category |-> "incident_response"] >>]

\* self.control_library.get(category, [])
LibraryBucket(library, category) ==
    IF category \in DOMAIN library THEN library[category] ELSE <<>>

(***************************************************************************)
(* Objects.  A list handed to or returned by the engine holds objects: a   *)
(* dict the caller owns is the dict itself; a dict that IS a record of the *)
(* control library (the same object, not a copy) is a reference to it.     *)
(***************************************************************************)
LibraryObject(category, index) == [library |-> category, index |-> index]

IsLibraryObject(o) == DOMAIN o = {"library", "index"}

\* the dict an object currently is
Deref(library, o) == IF IsLibraryObject(o) THEN library[o.library][o.index] ELSE o

(***************************************************************************)
(* RecommendationEngine.recommend_controls                                 *)
(***************************************************************************)
\* complexity_scores.get(.., 50) and cost_scores.get(.., 50)
EaseScore(level) ==
    CASE level = "Low"    -> 100
      [] level = "Medium" -> 75
      [] level = "High"   -> 50
      [] OTHER            -> 50

\* round(effectiveness * 0.5 + complexity_score * 0.3 + cost_score * 0.2, 2), in hundredths
CalculateRecommendationScoreSwapped(control) ==
    control.effectiveness * 50 + EaseScore(control.complexity) * 20
        + EaseScore(control.cost) * 30

calculate_recommendation_score(control) ==
    control.effectiveness * 50 + EaseScore(control.complexity) * 30
        + EaseScore(control.cost) * 20

\* {**control, 'category': .., 'recommendation_score': .., 'rationale': ..}
RecommendationEntry(control, category) ==
    Put(Put(Put(control, "category", category),
            "recommendation_score", calculate_recommendation_score(control)),
        "rationale", "Addresses " \o category \o " risks")

\* [cat for cat, level in risk_levels.items() if level in ['High', 'Critical']]
HighRiskCategories(risk_levels) ==
    LET flagged == SelectSeq(risk_levels, LAMBDA item : item.level \in {"High", "Critical"})
    IN  [i \in DOMAIN flagged |-> flagged[i].category]

RECURSIVE CollectRecommendations(_, _)
CollectRecommendations(library, categories) ==
    IF categories = <<>> THEN <<>>
    ELSE LET category == Head(categories)
             controls == LibraryBucket(library, category)
         IN  [i \in DOMAIN controls |-> RecommendationEntry(controls[i], category)]
             \o CollectRecommendations(library, Tail(categories))

\* list.sort(key=.., reverse=True): stable, descending by the integer field `key`
RECURSIVE InsertByKey(_, _, _)
InsertByKey(sorted, item, key) ==
    IF sorted = <<>> THEN <<item>>
    ELSE IF Head(sorted)[key] >= item[key]
         THEN <<Head(sorted)>> \o InsertByKey(Tail(sorted), item, key)
         ELSE <<item>> \o sorted

RECURSIVE SortDescending(_, _)
SortDescending(items, key) ==
    IF items = <<>> THEN <<>>
    ELSE InsertByKey(SortDescending(SubSeq(items, 1, Len(items) - 1), key),
                     items[Len(items)], key)

recommend_controls(risk_profile) ==
    LET risk_levels == Get(risk_profile, "risk_levels", <<>>)
        high_risk_categories == HighRiskCategories(risk_levels)
        recommendations == CollectRecommendations(control_library, high_risk_categories)
    IN  Returned(Take(SortDescending(recommendations, "recommendation_score"), 10))

RecommendControls(risk_profile) ==
    /\ op' = "recommend_controls"
    /\ args' = [risk_profile |-> risk_profile]
    /\ result' = recommend_controls(risk_profile)
    /\ UNCHANGED catalogs

(***************************************************************************)
(* RecommendationEngine.suggest_framework_alignment                        *)
(***************************************************************************)
\* [ctrl for ctrl in current_controls if ctrl.get('category') == category]
CategoryControlsUnfiltered(current_controls, category) ==
    SelectSeq(current_controls, LAMBDA ctrl : "category" \in DOMAIN ctrl)

CategoryControls(current_controls, category) ==
    SelectSeq(current_controls, LAMBDA ctrl : Get(ctrl, "category", "None") = category)

\* recommended[:2]: a new list of the same record objects
RecommendedObjects(library, category) ==
    LET recommended == LibraryBucket(library, category)
    IN  [i \in 1..(IF Len(recommended) < 2 THEN Len(recommended) ELSE 2) |->
            LibraryObject(category, i)]

RECURSIVE Suggestions(_, _, _)
Suggestions(library, framework_map, current_controls) ==
    IF framework_map = <<>> THEN <<>>
    ELSE LET req_id == Head(framework_map).requirement
             category == Head(framework_map).category
             category_controls == CategoryControls(current_controls, category)
             rest == Suggestions(library, Tail(framework_map), current_controls)
         IN  IF category_controls = <<>>
             THEN IF LibraryBucket(library, category) # <<>>
                  THEN << [requirement |-> req_id, category |-> category, status |-> "Gap",
                           recommended_controls |-> RecommendedObjects(library, category)] >>
                       \o rest
                  ELSE rest
             ELSE << [requirement |-> req_id, category |-> category, status |-> "Covered",
                      existing_controls |-> Len(category_controls)] >> \o rest

\* round(coverage_percentage, 1), in tenths of a percent
CoveragePercentage(coverage, total) ==
    IF total > 0 THEN RoundDiv(coverage * 100 * 10, total) ELSE 0

suggest_framework_alignment(current_controls, target_framework) ==
    IF target_framework \notin DOMAIN framework_mappings
    THEN Returned([error |-> "Unknown framework"])
    ELSE
      LET framework_map == framework_mappings[target_framework]
          suggestions == Suggestions(control_library, framework_map, current_controls)
          coverage == Len(SelectSeq(suggestions, LAMBDA s : s.status = "Covered"))
          total == Len(suggestions)
      IN  Returned(
            [framework |-> target_framework,
             coverage_percentage |-> CoveragePercentage(coverage, total),
             total_requirements |-> total,
             covered_requirements |-> coverage,
             gap_count |-> total - coverage,
             suggestions |-> suggestions])

SuggestFrameworkAlignment(current_controls, target_framework) ==
    /\ op' = "suggest_framework_alignment"
    /\ args' = [current_controls |-> current_controls, target_framework |-> target_framework]
    /\ result' = suggest_framework_alignment(current_controls, target_framework)
    /\ UNCHANGED catalogs

(***************************************************************************)
(* RecommendationEngine.smart_control_mapping                              *)
(***************************************************************************)
\* self.framework_mappings.get(framework, {})
MappingOf(framework) ==
    IF framework \in DOMAIN framework_mappings THEN framework_mappings[framework] ELSE <<>>

RECURSIVE MappingsFor(_, _)
MappingsFor(source_map, target_map) ==
    IF source_map = <<>> THEN <<>>
    ELSE LET source == Head(source_map)
             equal == SelectSeq(target_map, LAMBDA t : t.category = source.category)
         IN  [i \in DOMAIN equal |->
                 [source_requirement |-> source.requirement,
                  target_requirement |-> equal[i].requirement,
                  category |-> source.category,
                  mapping_confidence |-> "High"]]
             \o MappingsFor(Tail(source_map), target_map)

smart_control_mapping(source_framework, target_framework) ==
    Returned(MappingsFor(MappingOf(source_framework), MappingOf(target_framework)))

SmartControlMapping(source_framework, target_framework) ==
    /\ op' = "smart_control_mapping"
    /\ args' = [source_framework |-> source_framework, target_framework |-> target_framework]
    /\ result' = smart_control_mapping(source_framework, target_framework)
    /\ UNCHANGED catalogs

(***************************************************************************)
(* RecommendationEngine.prioritize_remediation                             *)
(***************************************************************************)
\* Factor 1: severity
SeverityScore(gap) ==
    LET priority == Get(gap, "priority", "None")
    IN  CASE priority = "Critical" -> 100
          [] priority = "High"     -> 75
          [] priority = "Medium"   -> 50
          [] OTHER                 -> 25

\* a gap without complexity counted as the hardest
ComplexityScoreMissingAsHigh(gap) ==
    LET complexity == Get(gap, "complexity", "High")
    IN  CASE complexity = "Low"    -> 30
          [] complexity = "Medium" -> 15
          [] OTHER                 -> 0

\* Factor 2: ease of implementation
ComplexityScore(gap) ==
    LET complexity == Get(gap, "complexity", "Medium")
    IN  CASE complexity = "Low"    -> 30
          [] complexity = "Medium" -> 15
          [] OTHER                 -> 0

\* Factor 3: cost effectiveness
CostScore(gap) ==
    LET cost == Get(gap, "cost", "Medium")
    IN  CASE cost = "Low"    -> 20
          [] cost = "Medium" -> 10
          [] OTHER           -> 0

PriorityScore(gap) == SeverityScore(gap) + ComplexityScore(gap) + CostScore(gap)

RecommendedActionStrict(priority_score) ==
    IF priority_score > 150 THEN "Immediate - Start within 1 week"
    ELSE IF priority_score > 100 THEN "High Priority - Start within 1 month"
    ELSE IF priority_score > 50 THEN "Medium Priority - Plan for next quarter"
    ELSE "Low Priority - Address as resources allow"

RecommendedAction(priority_score) ==
    IF priority_score >= 150 THEN "Immediate - Start within 1 week"
    ELSE IF priority_score >= 100 THEN "High Priority - Start within 1 month"
    ELSE IF priority_score >= 50 THEN "Medium Priority - Plan for next quarter"
    ELSE "Low Priority - Address as resources allow"

\* the body of the loop: gap['priority_score'] = ..; gap['action'] = ..
Scored(gap) ==
    Put(Put(gap, "priority_score", PriorityScore(gap)),
        "action", RecommendedAction(PriorityScore(gap)))

\* the loop over gaps: every dict is written in place, so a dict that is a
\* library record is written in the library, and a dict of the caller in the list
RECURSIVE ScoreGaps(_, _)
ScoreGaps(library, gaps) ==
    IF gaps = <<>> THEN [library |-> library, gaps |-> <<>>]
    ELSE LET gap == Head(gaps)
             written ==
                 IF IsLibraryObject(gap)
                 THEN [library EXCEPT ![gap.library][gap.index] = Scored(@)]
                 ELSE library
             rest == ScoreGaps(written, Tail(gaps))
         IN  [library |-> rest.library,
              gaps |-> << IF IsLibraryObject(gap) THEN gap ELSE Scored(gap) >> \o rest.gaps]

\* a sort that puts a gap before the gaps of equal score already placed
RECURSIVE InsertByPriorityScoreUnstable(_, _, _)
InsertByPriorityScoreUnstable(library, sorted, gap) ==
    IF sorted = <<>> THEN <<gap>>
    ELSE IF Deref(library, Head(sorted)).priority_score > Deref(library, gap).priority_score
         THEN <<Head(sorted)>> \o InsertByPriorityScoreUnstable(library, Tail(sorted), gap)
         ELSE <<gap>> \o sorted

\* gaps.sort(key=lambda x: x['priority_score'], reverse=True): stable, descending
RECURSIVE InsertByPriorityScore(_, _, _)
InsertByPriorityScore(library, sorted, gap) ==
    IF sorted = <<>> THEN <<gap>>
    ELSE IF Deref(library, Head(sorted)).priority_score >= Deref(library, gap).priority_score
         THEN <<Head(sorted)>> \o InsertByPriorityScore(library, Tail(sorted), gap)
         ELSE <<gap>> \o sorted

RECURSIVE SortByPriorityScore(_, _)
SortByPriorityScore(library, gaps) ==
    IF gaps = <<>> THEN <<>>
    ELSE InsertByPriorityScore(library,
             SortByPriorityScore(library, SubSeq(gaps, 1, Len(gaps) - 1)), gaps[Len(gaps)])

\* the library and the list as the call leaves them
prioritize_remediation(gaps) ==
    LET scored == ScoreGaps(control_library, gaps)
    IN  [library |-> scored.library,
         gaps |-> SortByPriorityScore(scored.library, scored.gaps)]

\* origin: where the caller took the list from ("caller": built by the caller;
\* otherwise the name of the call whose output it is)
PrioritizeRemediation(gaps, origin) ==
    /\ op' = "prioritize_remediation"
    /\ args' = [gaps |-> gaps, origin |-> origin]
    /\ result' = Returned(prioritize_remediation(gaps).gaps)
    /\ control_library' = prioritize_remediation(gaps).library
    /\ UNCHANGED <<frameworks, framework_mappings>>

(***************************************************************************)
(* Text.  A Python str is a TLA+ string; position i of Python is position  *)
(* i + 1 here.                                                             *)
(***************************************************************************)
CharAt(text, i) == SubSeq(text, i, i)

\* the characters \s matches and str.strip() removes
Whitespace == {" ", "\n", "\t", "\r", "\f"}

UpperCase == <<"A", "B", "C", "D", "E", "F", "G", "H", "I", "J", "K", "L", "M",
               "N", "O", "P", "Q", "R", "S", "T", "U", "V", "W", "X", "Y", "Z">>

LowerCase == <<"a", "b", "c", "d", "e", "f", "g", "h", "i", "j", "k", "l", "m",
               "n", "o", "p", "q", "r", "s", "t", "u", "v", "w", "x", "y", "z">>

LowerChar(c) ==
    IF \E i \in DOMAIN UpperCase : UpperCase[i] = c
    THEN LowerCase[CHOOSE i \in DOMAIN UpperCase : UpperCase[i] = c]
    ELSE c

\* str.lower()
RECURSIVE ToLower(_)
ToLower(text) ==
    IF Len(text) = 0 THEN ""
    ELSE IF Len(text) = 1 THEN LowerChar(text)
    ELSE LET half == Len(text) \div 2
         IN  ToLower(SubSeq(text, 1, half)) \o ToLower(SubSeq(text, half + 1, Len(text)))

\* the `in` operator on two strings
Contains(text, part) ==
    \E p \in 1..(Len(text) - Len(part) + 1) : SubSeq(text, p, p + Len(part) - 1) = part

\* str.strip()
Strip(text) ==
    LET kept == {i \in 1..Len(text) : CharAt(text, i) \notin Whitespace}
    IN  IF kept = {} THEN ""
        ELSE SubSeq(text, CHOOSE i \in kept : \A j \in kept : i <= j,
                          CHOOSE i \in kept : \A j \in kept : i >= j)

(***************************************************************************)
(* DocumentAnalyzerService._check_completeness                             *)
(***************************************************************************)
RequiredElements ==
    [policy |-> <<"purpose", "scope", "responsibilities", "policy statement",
                  "compliance", "review", "effective date">>,
     procedure |-> <<"purpose", "scope", "procedure steps", "responsibilities",
                     "references", "records">>,
     contract |-> <<"parties", "term", "obligations", "confidentiality",
                    "liability", "termination">>]

\* required_elements.get(doc_type, [])
Required(doc_type) ==
    IF doc_type \in DOMAIN RequiredElements THEN RequiredElements[doc_type] ELSE <<>>

\* element.lower() in text_lower
ElementFound(text_lower, element) == Contains(text_lower, ToLower(element))

\* an unknown document type scored as having nothing
CompletenessScoreEmptyAsZero(found, total) ==
    IF total > 0 THEN RoundDiv(found * 1000, total) ELSE 0

\* round((found / len(required)) * 100 if required else 100, 1), in tenths
CompletenessScore(found, total) ==
    IF total > 0 THEN RoundDiv(found * 1000, total) ELSE 1000

check_completeness(text, doc_type) ==
    LET text_lower == ToLower(text)
        required == Required(doc_type)
        missing == SelectSeq(required, LAMBDA element : ~ElementFound(text_lower, element))
        found == Len(required) - Len(missing)
    IN  Returned([score |-> CompletenessScore(found, Len(required)),
                  found |-> found,
                  total_required |-> Len(required),
                  missing |-> missing])

CheckCompleteness(text, doc_type) ==
    /\ op' = "_check_completeness"
    /\ args' = [text |-> text, doc_type |-> doc_type]
    /\ result' = check_completeness(text, doc_type)
    /\ UNCHANGED catalogs

(***************************************************************************)
(* DocumentAnalyzerService._extract_requirements                           *)
(***************************************************************************)
\* the four patterns keyword\s+([^.]+), by their keywords, in scan order
RequirementPatterns == <<"must", "shall", "required to", "mandatory">>

\* the last position of the whitespace run that starts at position first
RunEnd(text, first) ==
    CHOOSE last \in first..Len(text) :
        /\ \A i \in first..last : CharAt(text, i) \in Whitespace
        /\ last = Len(text) \/ CharAt(text, last + 1) \notin Whitespace

\* where group 1 starts when keyword\s+([^.]+) matches at position p, 0 when
\* it does not match there.  \s+ takes the whole whitespace run; when no
\* character other than a period follows the run, it gives its last
\* character back to the group, which a run of one cannot do.
GroupStart(text, keyword, p) ==
    LET first == p + Len(keyword)
    IN  IF ~(/\ first <= Len(text)
             /\ CharAt(text, first) \in Whitespace
             /\ ToLower(SubSeq(text, p, first - 1)) = keyword)
        THEN 0
        ELSE LET last == RunEnd(text, first)
             IN  IF last < Len(text) /\ CharAt(text, last + 1) # "." THEN last + 1
                 ELSE IF last > first THEN last
                 ELSE 0

\* where [^.]+ stops: before the next period, or at the end of the text
GroupEnd(text, start) ==
    LET periods == {q \in (start + 1)..Len(text) : CharAt(text, q) = "."}
    IN  IF periods = {} THEN Len(text)
        ELSE (CHOOSE q \in periods : \A r \in periods : q <= r) - 1

\* re.finditer: the matches from position from on, left to right, each
\* search resuming where the last match ended
RECURSIVE FindIter(_, _, _, _)
FindIter(text, keyword, starts, from) ==
    LET ahead == {p \in starts : p >= from}
    IN  IF ahead = {} THEN <<>>
        ELSE LET p == CHOOSE q \in ahead : \A r \in ahead : q <= r
                 group_start == GroupStart(text, keyword, p)
                 group_end == GroupEnd(text, group_start)
             IN  << [start |-> p - 1, group |-> SubSeq(text, group_start, group_end)] >>
                     \o FindIter(text, keyword, starts, group_end + 1)

Matches(text, keyword) ==
    FindIter(text, keyword, {p \in 1..Len(text) : GroupStart(text, keyword, p) > 0}, 1)

\* a filter that lets a requirement of ten characters through
LongEnoughFromTen(req_text) == Len(req_text) >= 10

\* if len(req_text) > 10
LongEnough(req_text) == Len(req_text) > 10

\* the requirements one pattern appends
PatternRequirements(text, keyword) ==
    LET matches == Matches(text, keyword)
        stripped == [i \in DOMAIN matches |->
                        [text |-> Strip(matches[i].group), type |-> "mandatory",
                         position |-> matches[i].start]]
    IN  SelectSeq(stripped, LAMBDA req : LongEnough(req.text))

\* the patterns scanned from the last to the first
RECURSIVE RequirementsLastPatternFirst(_, _)
RequirementsLastPatternFirst(text, n) ==
    IF n = 0 THEN <<>>
    ELSE PatternRequirements(text, RequirementPatterns[n])
             \o RequirementsLastPatternFirst(text, n - 1)

\* the list `requirements` after the loop over the first n patterns
RECURSIVE Requirements(_, _)
Requirements(text, n) ==
    IF n = 0 THEN <<>>
    ELSE Requirements(text, n - 1) \o PatternRequirements(text, RequirementPatterns[n])

\* a pass that keeps every requirement
UniqueReqsKeepingAll(requirements, seen) == requirements

\* a pass that keeps the last requirement of each text
RECURSIVE UniqueReqsKeepingLast(_, _)
UniqueReqsKeepingLast(requirements, seen) ==
    IF requirements = <<>> THEN <<>>
    ELSE LET req == Head(requirements)
             rest == Tail(requirements)
         IN  IF \E j \in DOMAIN rest : rest[j].text = req.text
             THEN UniqueReqsKeepingLast(rest, seen)
             ELSE <<req>> \o UniqueReqsKeepingLast(rest, seen)

\* Remove duplicates: the first requirement of each text is kept
RECURSIVE UniqueReqs(_, _)
UniqueReqs(requirements, seen) ==
    IF requirements = <<>> THEN <<>>
    ELSE LET req == Head(requirements)
         IN  IF req.text \notin seen
             THEN <<req>> \o UniqueReqs(Tail(requirements), seen \cup {req.text})
             ELSE UniqueReqs(Tail(requirements), seen)

extract_requirements(text) ==
    Returned(Take(UniqueReqs(Requirements(text, Len(RequirementPatterns)), {}), 10))

ExtractRequirements(text) ==
    /\ op' = "_extract_requirements"
    /\ args' = [text |-> text]
    /\ result' = extract_requirements(text)
    /\ UNCHANGED catalogs

(***************************************************************************)
(* RiskPredictionService.predict_emerging_risks                            *)
(* probability is kept in hundredths; predicted_on (a timestamp) is left   *)
(* out of the entries.                                                     *)
(***************************************************************************)
EmergingRisksDb ==
    [technology |->
        << [name |-> "AI/ML Security Vulnerabilities", category |-> "Cybersecurity",
            probability |-> 75,
            description |-> "Risks from AI model poisoning and adversarial attacks"],
           [name |-> "Supply Chain Software Risks", category |-> "Third Party",
            probability |-> 68,
            description |-> "Vulnerabilities in dependencies and open-source components"] >>,
     finance |->
        << [name |-> "Regulatory Compliance Changes", category |-> "Compliance",
            probability |-> 80,
            description |-> "New financial regulations and reporting requirements"],
           [name |-> "Digital Payment Fraud", category |-> "Operational",
            probability |-> 72,
            description |-> "Sophisticated fraud schemes targeting digital transactions"] >>,
     healthcare |->
        << [name |-> "Ransomware Targeting Healthcare", category |-> "Cybersecurity",
            probability |-> 85,
            description |-> "Increased ransomware attacks on healthcare systems"],
           [name |-> "Medical Device Security", category |-> "Cybersecurity",
            probability |-> 70,
            description |-> "Vulnerabilities in connected medical devices"] >>]

\* emerging_risks_db.get(industry.lower(), [])
BaseRisks(industry) ==
    LET key == ToLower(industry)
    IN  IF key \in DOMAIN EmergingRisksDb THEN EmergingRisksDb[key] ELSE <<>>

\* probability*5 rounded to the nearest integer
PredictedLikelihoodRounded(probability) == RoundDiv(probability * 5, 100)

\* int(risk['probability'] * 5): the fraction is cut off
PredictedLikelihood(probability) == (probability * 5) \div 100

\* the metadata written into a surviving entry
Predicted(risk) ==
    Put(Put(Put(risk, "time_horizon", "6-12 months"),
            "predicted_likelihood", PredictedLikelihood(risk.probability)),
        "predicted_impact", 4)

predict_emerging_risks(industry, current_risks) ==
    IF \E i \in DOMAIN current_risks : "name" \notin DOMAIN current_risks[i]
    THEN Raised("KeyError", "name")
    ELSE LET base_risks == BaseRisks(industry)
             current_risk_names ==
                 {ToLower(current_risks[i].name) : i \in DOMAIN current_risks}
             new_risks ==
                 SelectSeq(base_risks, LAMBDA risk : ToLower(risk.name) \notin current_risk_names)
         IN  Returned([i \in DOMAIN new_risks |-> Predicted(new_risks[i])])

PredictEmergingRisks(industry, current_risks) ==
    /\ op' = "predict_emerging_risks"
    /\ args' = [industry |-> industry, current_risks |-> current_risks]
    /\ result' = predict_emerging_risks(industry, current_risks)
    /\ UNCHANGED catalogs

(***************************************************************************)
(* RiskPredictionService.analyze_risk_trends                               *)
(* analysis_date (a timestamp) is left out of the result.                  *)
(***************************************************************************)
\* risk.get('identified_date', '')[:7]
MonthOf(risk) == Take(Get(risk, "identified_date", ""), 7)

\* risk_counts_by_month, a dict month -> number of risks
RiskCountsByMonth(historical_risks) ==
    [month \in {MonthOf(historical_risks[i]) : i \in DOMAIN historical_risks} |->
        Cardinality({i \in DOMAIN historical_risks : MonthOf(historical_risks[i]) = month})]

\* the characters of a date, in the order of their code points
DateCharacters == "-0123456789"

CodePoint(c) == CHOOSE i \in 1..Len(DateCharacters) : CharAt(DateCharacters, i) = c

\* a < b on two strings
RECURSIVE StringLess(_, _)
StringLess(a, b) ==
    IF Len(b) = 0 THEN FALSE
    ELSE IF Len(a) = 0 THEN TRUE
    ELSE IF Head(a) = Head(b) THEN StringLess(Tail(a), Tail(b))
    ELSE CodePoint(Head(a)) < CodePoint(Head(b))

\* sorted(risk_counts_by_month.keys())
RECURSIVE SortedKeys(_)
SortedKeys(keys) ==
    IF keys = {} THEN <<>>
    ELSE LET least == CHOOSE a \in keys : \A b \in keys : a = b \/ StringLess(a, b)
         IN  <<least>> \o SortedKeys(keys \ {least})

\* sum(risk_counts_by_month[m] for m in window)
RECURSIVE SumOfCounts(_, _)
SumOfCounts(counts, window) ==
    IF window = <<>> THEN 0
    ELSE counts[Head(window)] + SumOfCounts(counts, Tail(window))

\* months[:3] and months[-3:]
FirstThree(months) == Take(months, 3)

\* a recent window of two months: months[-2:]
LastTwo(months) ==
    SubSeq(months, IF Len(months) > 2 THEN Len(months) - 1 ELSE 1, Len(months))

LastThree(months) ==
    SubSeq(months, IF Len(months) > 3 THEN Len(months) - 2 ELSE 1, Len(months))

\* recent_avg > older_avg * 1.2, on the sums of two windows of n months.  In
\* double arithmetic the outcome is that of the exact comparison for all
\* sums below 40.
RecentAbove(recent_sum, older_sum, n) == 5 * recent_sum > 6 * older_sum

\* recent_avg < older_avg * 0.8, on the sums of two windows of n months.  In
\* double arithmetic older_sum / 3 * 0.8 comes out one unit in the last place
\* above recent_sum / 3 for four pairs of sums below 40 at which the exact
\* numbers are equal; for all other sums below 40 the outcome is that of the
\* exact comparison.
RecentBelow(recent_sum, older_sum, n) ==
    \/ 5 * recent_sum < 4 * older_sum
    \/ /\ n = 3
       /\ <<recent_sum, older_sum>> \in {<<4, 5>>, <<8, 10>>, <<16, 20>>, <<20, 25>>}

Trend(counts) ==
    LET months == SortedKeys(DOMAIN counts)
    IN  IF Len(months) >= 2
        THEN LET recent_sum == SumOfCounts(counts, LastThree(months))
                 older_sum == SumOfCounts(counts, FirstThree(months))
                 n == Len(FirstThree(months))
             IN  IF RecentAbove(recent_sum, older_sum, n) THEN "increasing"
                 ELSE IF RecentBelow(recent_sum, older_sum, n) THEN "decreasing"
                 ELSE "stable"
        ELSE "insufficient_data"

analyze_risk_trends(historical_risks) ==
    IF historical_risks = <<>>
    THEN Returned([trend |-> "insufficient_data"])
    ELSE LET risk_counts_by_month == RiskCountsByMonth(historical_risks)
         IN  Returned([trend |-> Trend(risk_counts_by_month),
                       total_risks |-> Len(historical_risks),
                       monthly_data |-> risk_counts_by_month])

AnalyzeRiskTrends(historical_risks) ==
    /\ op' = "analyze_risk_trends"
    /\ args' = [historical_risks |-> historical_risks]
    /\ result' = analyze_risk_trends(historical_risks)
    /\ UNCHANGED catalogs

(***************************************************************************)
(* Construction, and what callers pass.                                    *)
(***************************************************************************)
Init ==
    /\ frameworks = GapServiceInit
    /\ control_library = LoadControlLibrary
    /\ framework_mappings = LoadFrameworkMappings
    /\ op = "none"
    /\ args = <<>>
    /\ result = <<>>

\* bounds on the lists a caller passes
MaxImplemented == 3
MaxRiskLevels == 3
MaxCurrentControls == 3
MaxGaps == 3
SessionMaxList == 1

FrameworkKeys == {"iso27001", "soc2", "gdpr", "hipaa"}

RequirementIds ==
    UNION {{frameworks[fw][i].id : i \in DOMAIN frameworks[fw]} : fw \in DOMAIN frameworks}

\* implemented controls: one per catalog id, one with an id of no catalog, one with no id
ImplementedControls ==
    {[id |-> x] : x \in RequirementIds \cup {"X.1"}} \cup {[name |-> "Firewall"]}

ThreatLevels == {"low", "medium", "high", "critical"}

RiskDataInputs ==
    [likelihood : 1..5, impact : 1..5, control_effectiveness : 0..100,
     threat_level : ThreatLevels \cup {"severe"}] \cup {<<>>}

RiskCategories == {"access_control", "data_protection", "incident_response", "network_security"}

RiskLevelNames == {"Low", "Medium", "High", "Critical"}

\* dicts category -> level with at most n keys, as item sequences
RiskLevelDicts(categories, levels, n) ==
    {items \in SeqsUpTo([category : categories, level : levels], n) :
        \A i, j \in DOMAIN items : i # j => items[i].category # items[j].category}

RiskProfiles ==
    {[risk_levels |-> items] : items \in RiskLevelDicts(RiskCategories, RiskLevelNames, MaxRiskLevels)}
        \cup {<<>>}

\* current controls: of each library category, of another category, with none
CurrentControls ==
    {[category |-> c] : c \in {"access_control", "data_protection", "incident_response",
                               "physical_security"}} \cup {[name |-> "MFA"]}

\* a gap dict with the given fields; "" leaves the field out
GapDict(control_id, priority, complexity, cost) ==
    LET fields == {"control_id"} \cup (IF priority = "" THEN {} ELSE {"priority"})
                      \cup (IF complexity = "" THEN {} ELSE {"complexity"})
                      \cup (IF cost = "" THEN {} ELSE {"cost"})
    IN  [f \in fields |->
            CASE f = "control_id" -> control_id
              [] f = "priority"   -> priority
              [] f = "complexity" -> complexity
              [] f = "cost"       -> cost]

GapDicts ==
    {GapDict("G-1", p, cx, c) :
        p \in {"Critical", "High", "Medium", "Low", ""},
        cx \in {"Low", "Medium", "High", ""},
        c \in {"Low", "Medium", "High", ""}}

\* gaps for longer lists: several scores, and two pairs with equal scores
SampleGaps ==
    {GapDict("G-1", "Critical", "Low", "Low"), GapDict("G-2", "Critical", "", ""),
     GapDict("G-3", "High", "Low", "Low"), GapDict("G-4", "Low", "High", "High"),
     GapDict("G-5", "", "High", "High")}

\* gaps as _generate_recommendations reads them: a category and a priority
CategoryGaps ==
    [category : {"Organizational Controls", "Technological Controls"},
     priority : {"Critical", "Medium"}]

CallerGapLists == {<<g>> : g \in GapDicts} \cup SeqsUpTo(SampleGaps, MaxGaps)

\* the lists of an earlier call's output that a caller can hand to prioritize_remediation
PassableGaps ==
    IF op = "none" \/ result.outcome # "return" THEN {}
    ELSE CASE op = "analyze_gaps" -> {result.value.gaps}
           [] op = "recommend_controls" -> {result.value}
           [] op = "prioritize_remediation" -> {result.value}
           [] op = "suggest_framework_alignment" ->
                IF "suggestions" \in DOMAIN result.value
                THEN {result.value.suggestions[i].recommended_controls :
                        i \in {j \in DOMAIN result.value.suggestions :
                                 result.value.suggestions[j].status = "Gap"}}
                ELSE {}
           [] OTHER -> {}

\* bounds on the documents a caller passes: the number of passages in a text
MaxPassages == 2
MaxClauses == 2

RECURSIVE Concat(_)
Concat(strings) == IF strings = <<>> THEN "" ELSE Head(strings) \o Concat(Tail(strings))

\* passages naming checklist elements, in mixed case; "Termination" holds
\* the element "term" as well, "Short term" holds it alone
DocumentPassages ==
    {"Purpose, Scope and Responsibilities. ",
     "POLICY STATEMENT. Compliance is subject to review from the Effective Date. ",
     "Procedure steps, with references and records. ",
     "The parties and their obligations: confidentiality, liability. ",
     "Termination. ",
     "Short term only. "}

DocumentTexts == {Concat(passages) : passages \in SeqsUpTo(DocumentPassages, MaxPassages)}

DocumentTypes == {"policy", "procedure", "contract", "memo"}

\* ten sentences with ten different requirements
TenRequirements ==
    Concat([i \in 1..10 |-> "Unit " \o CharAt("0123456789", i) \o " must do the task "
                               \o CharAt("0123456789", i) \o ". "])

\* clauses with requirements: the same requirement under two patterns, groups
\* of 9, 10 and 11 characters once trimmed, a clause that runs on into the
\* next one, and ten requirements at once
RequirementClauses ==
    {"Users must encrypt all data. ",
     "Admins SHALL encrypt all data. ",
     "Staff must  keep a log . ",
     "Guards are required to lock a door. ",
     "It is mandatory to log in. ",
     "Vendors shall follow the rules and ",
     TenRequirements}

RequirementTexts == {Concat(clauses) : clauses \in SeqsUpTo(RequirementClauses, MaxClauses)}

\* bounds on what a caller passes to the risk predictions
MaxCurrentRisks == 2
MaxHistory == 3
MaxPerMonth == 2

\* industries: the three of the catalog, two of them in another case, and one
\* the catalog does not have
Industries == {"technology", "Finance", "HEALTHCARE", "retail"}

\* current risks: catalog names in another case, a name of no catalog, no name
CurrentRisks ==
    {[name |-> n] : n \in {"ai/ml security vulnerabilities", "Supply Chain Software Risks",
                           "DIGITAL PAYMENT FRAUD", "Medical Device Security", "Phishing"}}
        \cup {[category |-> "Cybersecurity"]}

\* historical risks: two days of one month, three more months, and no date
DatedRisks ==
    <<[name |-> "Undated"], [identified_date |-> "2024-01-15"],
      [identified_date |-> "2024-02-10"], [identified_date |-> "2024-03-05"],
      [identified_date |-> "2024-04-20"]>>

HistoricalRecords == {DatedRisks[i] : i \in DOMAIN DatedRisks} \cup {[identified_date |-> "2024-01-30"]}

\* a history with per_month[i] risks of DatedRisks[i], month after month
RECURSIVE MonthByMonth(_, _)
MonthByMonth(per_month, i) ==
    IF i > Len(DatedRisks) THEN <<>>
    ELSE [j \in 1..per_month[i] |-> DatedRisks[i]] \o MonthByMonth(per_month, i + 1)

\* histories: every short list in every order, and every list in the order
\* of the months with up to MaxPerMonth risks a month
Histories ==
    SeqsUpTo(HistoricalRecords, MaxHistory)
        \cup {MonthByMonth(per_month, 1) : per_month \in [DOMAIN DatedRisks -> 0..MaxPerMonth]}

(***************************************************************************)
(* Spec: a caller making any sequence of calls on one RecommendationEngine *)
(* and one GapAnalysisService, handing outputs on to later calls.          *)
(***************************************************************************)
SessionImplemented == {[id |-> "A.5.1"], [id |-> "CC1.1"], [id |-> "Art.32"]}

SessionProfiles ==
    {[risk_levels |-> items] :
        items \in RiskLevelDicts({"access_control", "data_protection"}, {"High", "Low"},
                                 SessionMaxList)}

SessionCurrentControls == {[category |-> "access_control"], [category |-> "data_protection"]}

SessionAnalyzeGaps ==
    \E framework \in FrameworkKeys, current_controls \in SeqsUpTo(SessionImplemented, SessionMaxList) :
        AnalyzeGaps(framework, current_controls)

SessionRecommendControls ==
    \E risk_profile \in SessionProfiles : RecommendControls(risk_profile)

SessionSuggestFrameworkAlignment ==
    \E current_controls \in SeqsUpTo(SessionCurrentControls, SessionMaxList),
       target_framework \in {"iso27001", "soc2", "gdpr"} :
        SuggestFrameworkAlignment(current_controls, target_framework)

SessionSmartControlMapping ==
    \E source_framework \in {"iso27001", "soc2", "gdpr"},
       target_framework \in {"iso27001", "soc2", "gdpr"} :
        SmartControlMapping(source_framework, target_framework)

SessionPrioritizeOutput ==
    \E gaps \in PassableGaps : PrioritizeRemediation(gaps, op)

SessionPrioritizeCallerGaps ==
    \E gaps \in SeqsUpTo(SampleGaps, SessionMaxList) : PrioritizeRemediation(gaps, "caller")

Next ==
    \/ SessionAnalyzeGaps
    \/ SessionRecommendControls
    \/ SessionSuggestFrameworkAlignment
    \/ SessionSmartControlMapping
    \/ SessionPrioritizeOutput
    \/ SessionPrioritizeCallerGaps

Spec == Init /\ [][Next]_vars

(***************************************************************************)
(* CallSpec: the first call on freshly constructed services, with its      *)
(* arguments drawn from the full input sets above, and the gap list that   *)
(* call returned handed to prioritize_remediation.                         *)
(***************************************************************************)
CallAnalyzeGaps ==
    /\ op = "none"
    /\ \E framework \in FrameworkKeys,
          current_controls \in SeqsUpTo(ImplementedControls, MaxImplemented) :
            AnalyzeGaps(framework, current_controls)

CallCalculateRiskScore ==
    /\ op = "none"
    /\ \E risk_data \in RiskDataInputs : CalculateRiskScore(risk_data)

CallRecommendControls ==
    /\ op = "none"
    /\ \E risk_profile \in RiskProfiles : RecommendControls(risk_profile)

CallSuggestFrameworkAlignment ==
    /\ op = "none"
    /\ \E current_controls \in SeqsUpTo(CurrentControls, MaxCurrentControls),
          target_framework \in FrameworkKeys :
            SuggestFrameworkAlignment(current_controls, target_framework)

CallPrioritizeRemediation ==
    /\ op = "none"
    /\ \E gaps \in CallerGapLists : PrioritizeRemediation(gaps, "caller")

CallCheckCompleteness ==
    /\ op = "none"
    /\ \E text \in DocumentTexts, doc_type \in DocumentTypes : CheckCompleteness(text, doc_type)

CallExtractRequirements ==
    /\ op = "none"
    /\ \E text \in RequirementTexts : ExtractRequirements(text)

CallPredictEmergingRisks ==
    /\ op = "none"
    /\ \E industry \in Industries, current_risks \in SeqsUpTo(CurrentRisks, MaxCurrentRisks) :
          PredictEmergingRisks(industry, current_risks)

CallAnalyzeRiskTrends ==
    /\ op = "none"
    /\ \E historical_risks \in Histories : AnalyzeRiskTrends(historical_risks)

CallGenerateRecommendations ==
    /\ op = "none"
    /\ \E gaps \in SeqsUpTo(CategoryGaps, MaxGaps) : GenerateRecommendations(gaps)

\* the round trip: the gaps of the analyze_gaps result, prioritized
CallPrioritizeAnalyzedGaps ==
    /\ op = "analyze_gaps"
    /\ \E gaps \in PassableGaps : PrioritizeRemediation(gaps, op)

CallNext ==
    \/ CallAnalyzeGaps
    \/ CallCalculateRiskScore
    \/ CallRecommendControls
    \/ CallSuggestFrameworkAlignment
    \/ CallPrioritizeRemediation
    \/ CallPrioritizeAnalyzedGaps
    \/ CallCheckCompleteness
    \/ CallExtractRequirements
    \/ CallPredictEmergingRisks
    \/ CallAnalyzeRiskTrends
    \/ CallGenerateRecommendations

CallSpec == Init /\ [][CallNext]_vars

(***************************************************************************)
(* Properties.                                                             *)
(***************************************************************************)

\* C1: after any sequence of calls, handing outputs of one call to another
\* included, the control library, the framework mapping tables and the
\* requirement catalogs equal their values at construction.
CatalogsAsConstructed ==
    /\ frameworks = GapServiceInit
    /\ control_library = LoadControlLibrary
    /\ framework_mappings = LoadFrameworkMappings

IsRiskCall ==
    /\ op = "calculate_risk_score"
    /\ DOMAIN args.risk_data = {"likelihood", "impact", "control_effectiveness", "threat_level"}
    /\ args.risk_data.threat_level \in ThreatLevels

\* the documented multipliers {low: 0.8, medium: 1.0, high: 1.3, critical: 1.5}, in tenths
DocumentedMultiplier(threat_level) ==
    CASE threat_level = "low" -> 8
      [] threat_level = "medium" -> 10
      [] threat_level = "high" -> 13
      [] threat_level = "critical" -> 15

\* likelihood*(1 - controlEffectiveness/100*0.4)*impact*threatMultiplier, in ten-thousandths
DocumentedScore(d) ==
    d.likelihood * (1000 - 4 * d.control_effectiveness) * d.impact
        * DocumentedMultiplier(d.threat_level)

\* C2: calculate_risk_score classifies by the final score with inclusive lower
\* bounds: >= 15 Critical/1, >= 10 High/2, >= 5 Medium/3, else Low/4.
RiskClassifiedByThresholds ==
    IsRiskCall =>
        LET score == DocumentedScore(args.risk_data)
            r == result.value
        IN  /\ result.outcome = "return"
            /\ score >= 150000 => r.classification = "Critical" /\ r.priority = 1
            /\ (score >= 100000 /\ score < 150000) => r.classification = "High" /\ r.priority = 2
            /\ (score >= 50000 /\ score < 100000) => r.classification = "Medium" /\ r.priority = 3
            /\ score < 50000 => r.classification = "Low" /\ r.priority = 4

\* a call whose score is exactly 15 and is classified Critical
RiskScoreExactlyFifteen ==
    /\ IsRiskCall
    /\ DocumentedScore(args.risk_data) = 150000
    /\ args.risk_data.control_effectiveness > 0
    /\ result.value.classification = "Critical"

ThreatSeverity(threat_level) ==
    CASE threat_level = "low" -> 1
      [] threat_level = "medium" -> 2
      [] threat_level = "high" -> 3
      [] threat_level = "critical" -> 4

ClassSeverity(classification) ==
    CASE classification = "Low" -> 1
      [] classification = "Medium" -> 2
      [] classification = "High" -> 3
      [] classification = "Critical" -> 4

NotLower(r1, r2) ==
    /\ r2.risk_score >= r1.risk_score
    /\ ClassSeverity(r2.classification) >= ClassSeverity(r1.classification)
    /\ r2.priority <= r1.priority

\* C3: calculate_risk_score is monotonically non-decreasing in impact and in
\* threat-level severity: a larger impact alone, or a more severe threat level
\* alone, never lowers the score or the classification, nor raises the priority number.
RiskScoreMonotone ==
    IsRiskCall =>
        LET d == args.risk_data
        IN  /\ \A impact \in 1..5 :
                 impact > d.impact =>
                    NotLower(result.value,
                             calculate_risk_score([d EXCEPT !.impact = impact]).value)
            /\ \A threat_level \in ThreatLevels :
                 ThreatSeverity(threat_level) > ThreatSeverity(d.threat_level) =>
                    NotLower(result.value,
                             calculate_risk_score([d EXCEPT !.threat_level = threat_level]).value)

\* a Low result that a larger impact and a more severe threat level each lift
RiskScoreLifted ==
    /\ IsRiskCall
    /\ result.value.classification = "Low"
    /\ \E impact \in 1..5 :
          /\ impact > args.risk_data.impact
          /\ calculate_risk_score([args.risk_data EXCEPT !.impact = impact]).value.classification
                # "Low"
    /\ \E threat_level \in ThreatLevels :
          /\ ThreatSeverity(threat_level) > ThreatSeverity(args.risk_data.threat_level)
          /\ calculate_risk_score([args.risk_data EXCEPT !.threat_level = threat_level])
                .value.classification # "Low"

IsGapCall ==
    /\ op = "analyze_gaps"
    /\ args.framework \in {"iso27001", "soc2", "gdpr"}
    /\ \A i \in DOMAIN args.current_controls : "id" \in DOMAIN args.current_controls[i]

\* the positions of the framework's requirements that no implemented control has the id of
MissingRequirements ==
    {i \in DOMAIN frameworks[args.framework] :
        \A j \in DOMAIN args.current_controls :
            args.current_controls[j].id # frameworks[args.framework][i].id}

\* C4: the gaps of analyze_gaps are exactly the framework's requirements whose
\* id no implemented control has, one gap each, in catalog order, each with
\* status Missing and its other fields copied from the requirement.
GapsAreMissingRequirements ==
    IsGapCall =>
        LET required == frameworks[args.framework]
            gaps == result.value.gaps
        IN  /\ result.outcome = "return"
            /\ Len(gaps) = Cardinality(MissingRequirements)
            /\ \A k \in DOMAIN gaps :
                 \E i \in MissingRequirements :
                    /\ Cardinality({j \in MissingRequirements : j < i}) = k - 1
                    /\ gaps[k] = [control_id |-> required[i].id,
                                  control_name |-> required[i].name,
                                  category |-> required[i].category,
                                  description |-> required[i].description,
                                  priority |-> required[i].priority,
                                  status |-> "Missing"]

\* iso27001 with a duplicated implemented control and one of no catalog: two gaps
GapsWithDuplicateAndForeignIds ==
    /\ IsGapCall
    /\ args.framework = "iso27001"
    /\ Len(args.current_controls) = 3
    /\ args.current_controls[1].id = "A.5.2"
    /\ args.current_controls[2].id = "A.5.2"
    /\ args.current_controls[3].id = "X.1"
    /\ Len(result.value.gaps) = 2
    /\ result.value.gaps[2].control_id = "A.8.1"

GapCountsConsistent ==
    LET r == result.value
    IN  /\ result.outcome = "return"
        /\ r.total_required = Len(frameworks[args.framework])
        /\ r.total_gaps = Len(r.gaps)
        /\ r.total_implemented + r.total_gaps = r.total_required
        /\ r.critical_gaps = Cardinality({k \in DOMAIN r.gaps : r.gaps[k].priority = "Critical"})
        /\ r.high_priority_gaps = Cardinality({k \in DOMAIN r.gaps : r.gaps[k].priority = "High"})
        /\ args.current_controls = <<>> =>
              r.total_gaps = r.total_required /\ r.completion_rate = 0

\* C5 as stated: the counts are consistent and completion_rate is exactly
\* total_implemented/total_required*100 (completion_rate is in hundredths).
CompletionRateExact ==
    IsGapCall =>
        /\ GapCountsConsistent
        /\ result.value.completion_rate * result.value.total_required
              = result.value.total_implemented * 100 * 100

\* C5 amended: the counts are consistent and completion_rate is
\* total_implemented/total_required*100 rounded to 2 decimals (the nearest hundredth).
CompletionRateRounded ==
    IsGapCall =>
        /\ GapCountsConsistent
        /\ LET exact == result.value.total_implemented * 100 * 100
               scaled == result.value.completion_rate * result.value.total_required
           IN  /\ 2 * (scaled - exact) <= result.value.total_required
               /\ 2 * (exact - scaled) <= result.value.total_required

\* iso27001 with two of three requirements implemented: 66.67
CompletionRateTwoThirds ==
    /\ IsGapCall
    /\ args.framework = "iso27001"
    /\ result.value.total_implemented = 2
    /\ result.value.total_gaps = 1
    /\ result.value.completion_rate = 6667

\* C6: analyze_gaps with a framework key outside {iso27001, soc2, gdpr} fails
\* with the unknown-framework error whatever the implemented controls are, and
\* with a supported key it does not fail with that error.
UnknownFrameworkRaises ==
    op = "analyze_gaps" =>
        LET unknown == /\ result.outcome = "raise"
                       /\ result.value.exception = "ValueError"
                       /\ result.value.message = "Unknown framework"
        IN  unknown <=> args.framework \notin {"iso27001", "soc2", "gdpr"}

\* an unknown framework with an empty list of implemented controls
UnknownFrameworkEmptyList ==
    /\ op = "analyze_gaps"
    /\ args.framework = "hipaa"
    /\ args.current_controls = <<>>
    /\ result.outcome = "raise"

\* C7: suggest_framework_alignment with a target framework that has no mapping
\* table fails with the unknown-framework error analyze_gaps signals, raised to
\* the caller and not returned, and produces no alignment report.
AlignmentUnknownFrameworkRaises ==
    (op = "suggest_framework_alignment" /\ args.target_framework \notin DOMAIN framework_mappings)
        => /\ result.outcome = "raise"
           /\ result.value.exception = "ValueError"

\* the risk_levels items of the call, and the flagged ones among them
RiskLevelItems == Get(args.risk_profile, "risk_levels", <<>>)

FlaggedItems == {c \in DOMAIN RiskLevelItems : RiskLevelItems[c].level \in {"High", "Critical"}}

\* where the controls to return stand: (item of risk_levels, place in its bucket)
FlaggedControls ==
    UNION {{<<c, i>> : i \in DOMAIN control_library[RiskLevelItems[c].category]} :
              c \in {f \in FlaggedItems : RiskLevelItems[f].category \in DOMAIN control_library}}

CollectedBefore(p, q) == p[1] < q[1] \/ (p[1] = q[1] /\ p[2] < q[2])

ControlAt(pos) == control_library[RiskLevelItems[pos[1]].category][pos[2]]

\* effectiveness*0.5 + complexityScore*0.3 + costScore*0.2, in hundredths
DocumentedEase(level) == IF level = "Low" THEN 100 ELSE IF level = "Medium" THEN 75 ELSE 50

DocumentedRecommendationScore(control) ==
    control.effectiveness * 50 + DocumentedEase(control.complexity) * 30
        + DocumentedEase(control.cost) * 20

\* entry e is the control standing at pos, with its category and score
IsEntryOf(e, pos) ==
    /\ \A f \in DOMAIN ControlAt(pos) : f \in DOMAIN e /\ e[f] = ControlAt(pos)[f]
    /\ e.category = RiskLevelItems[pos[1]].category
    /\ e.recommendation_score = DocumentedRecommendationScore(ControlAt(pos))

Ranked(p, q) ==
    \/ DocumentedRecommendationScore(ControlAt(p)) > DocumentedRecommendationScore(ControlAt(q))
    \/ /\ DocumentedRecommendationScore(ControlAt(p)) = DocumentedRecommendationScore(ControlAt(q))
       /\ CollectedBefore(p, q)

\* C8: recommend_controls returns exactly the controls of the buckets of the
\* categories flagged High or Critical, each with its weighted score, ordered by
\* score descending, equal scores in collection order, cut to the first 10.
RecommendationsRanked ==
    op = "recommend_controls" =>
        LET entries == result.value
        IN  /\ result.outcome = "return"
            /\ Len(entries) = IF Cardinality(FlaggedControls) < 10
                              THEN Cardinality(FlaggedControls) ELSE 10
            /\ \A k \in DOMAIN entries :
                 \E pos \in FlaggedControls :
                    /\ IsEntryOf(entries[k], pos)
                    /\ Cardinality({q \in FlaggedControls : Ranked(q, pos)}) = k - 1

\* two flagged categories and one that is not: four entries, DP-002 first, AC-002 last
RecommendationsOfTwoCategories ==
    /\ op = "recommend_controls"
    /\ Len(RiskLevelItems) = 3
    /\ FlaggedItems = {1, 3}
    /\ RiskLevelItems[2].category = "incident_response"
    /\ RiskLevelItems[2].level = "Medium"
    /\ Len(result.value) = 4
    /\ result.value[1].id = "DP-002"
    /\ result.value[4].id = "AC-002"

IsAlignmentCall ==
    /\ op = "suggest_framework_alignment"
    /\ args.target_framework \in DOMAIN framework_mappings

\* how many current controls have the category
ControlsOfCategory(category) ==
    Cardinality({j \in DOMAIN args.current_controls :
                    /\ "category" \in DOMAIN args.current_controls[j]
                    /\ args.current_controls[j].category = category})

AlignmentSuggestionsPerEntry ==
    LET mapping == framework_mappings[args.target_framework]
        r == result.value
    IN  /\ result.outcome = "return"
        /\ Len(r.suggestions) = Len(mapping)
        /\ \A i \in DOMAIN r.suggestions :
             LET s == r.suggestions[i]
                 n == ControlsOfCategory(mapping[i].category)
             IN  /\ s.requirement = mapping[i].requirement
                 /\ s.category = mapping[i].category
                 /\ n >= 1 => s.status = "Covered" /\ s.existing_controls = n
                 /\ n = 0 =>
                      /\ s.status = "Gap"
                      /\ Len(s.recommended_controls) <= 2
                      /\ \A k \in DOMAIN s.recommended_controls :
                           /\ IsLibraryObject(s.recommended_controls[k])
                           /\ s.recommended_controls[k].library = s.category
                           /\ s.recommended_controls[k].index
                                 \in DOMAIN control_library[s.category]
        /\ r.total_requirements = Len(mapping)
        /\ r.covered_requirements
              = Cardinality({i \in DOMAIN r.suggestions : r.suggestions[i].status = "Covered"})
        /\ r.covered_requirements + r.gap_count = r.total_requirements

\* C9 as stated: one suggestion per mapping entry, Covered with the count or Gap
\* with at most 2 suggested controls, consistent totals, and coverage_percentage
\* exactly covered/total*100 (coverage_percentage is in tenths).
CoveragePercentageExact ==
    IsAlignmentCall =>
        /\ AlignmentSuggestionsPerEntry
        /\ result.value.coverage_percentage * result.value.total_requirements
              = result.value.covered_requirements * 100 * 10

\* C9 amended: the same, with coverage_percentage = covered/total*100 rounded
\* to 1 decimal (the nearest tenth).
CoveragePercentageRounded ==
    IsAlignmentCall =>
        /\ AlignmentSuggestionsPerEntry
        /\ LET exact == result.value.covered_requirements * 100 * 10
               scaled == result.value.coverage_percentage * result.value.total_requirements
           IN  /\ 2 * (scaled - exact) <= result.value.total_requirements
               /\ 2 * (exact - scaled) <= result.value.total_requirements

\* two controls of one mapped category and one of no mapped category: 33.3 % covered
AlignmentOneOfThreeCovered ==
    /\ IsAlignmentCall
    /\ Len(args.current_controls) = 3
    /\ ControlsOfCategory("data_protection") = 2
    /\ ControlsOfCategory("physical_security") = 1
    /\ result.value.suggestions[2].status = "Covered"
    /\ result.value.suggestions[2].existing_controls = 2
    /\ result.value.suggestions[1].status = "Gap"
    /\ Len(result.value.suggestions[1].recommended_controls) = 2
    /\ result.value.coverage_percentage = 333

DocumentedSeverity(gap) ==
    IF "priority" \notin DOMAIN gap THEN 25
    ELSE IF gap.priority = "Critical" THEN 100
    ELSE IF gap.priority = "High" THEN 75
    ELSE IF gap.priority = "Medium" THEN 50
    ELSE 25

DocumentedComplexity(gap) ==
    IF "complexity" \notin DOMAIN gap THEN 15
    ELSE IF gap.complexity = "Low" THEN 30
    ELSE IF gap.complexity = "Medium" THEN 15
    ELSE 0

DocumentedCost(gap) ==
    IF "cost" \notin DOMAIN gap THEN 10
    ELSE IF gap.cost = "Low" THEN 20
    ELSE IF gap.cost = "Medium" THEN 10
    ELSE 0

\* the urgency band an action text opens with
BandOf(action) ==
    CASE action = "Immediate - Start within 1 week" -> "Immediate"
      [] action = "High Priority - Start within 1 month" -> "High Priority"
      [] action = "Medium Priority - Plan for next quarter" -> "Medium Priority"
      [] action = "Low Priority - Address as resources allow" -> "Low Priority"
      [] OTHER -> "none"

DocumentedBand(score) ==
    IF score >= 150 THEN "Immediate"
    ELSE IF score >= 100 THEN "High Priority"
    ELSE IF score >= 50 THEN "Medium Priority"
    ELSE "Low Priority"

\* C10: prioritize_remediation gives every gap priority_score = severity +
\* complexity + cost (missing complexity or cost counting as Medium) and the
\* action of the band of that score: >= 150 Immediate, >= 100 High Priority,
\* >= 50 Medium Priority, else Low Priority.
GapsScoredAndBanded ==
    op = "prioritize_remediation" =>
        /\ result.outcome = "return"
        /\ Len(result.value) = Len(args.gaps)
        /\ \A i \in DOMAIN result.value :
             LET gap == Deref(control_library, result.value[i])
             IN  /\ "priority_score" \in DOMAIN gap
                 /\ "action" \in DOMAIN gap
                 /\ gap.priority_score
                       = DocumentedSeverity(gap) + DocumentedComplexity(gap) + DocumentedCost(gap)
                 /\ BandOf(gap.action) = DocumentedBand(gap.priority_score)

\* priority Critical, complexity Low, cost Low: score 150, Immediate
CriticalLowLowIsImmediate ==
    /\ op = "prioritize_remediation"
    /\ Len(args.gaps) = 1
    /\ DOMAIN args.gaps[1] = {"control_id", "priority", "complexity", "cost"}
    /\ args.gaps[1].priority = "Critical"
    /\ args.gaps[1].complexity = "Low"
    /\ args.gaps[1].cost = "Low"
    /\ result.value[1].priority_score = 150
    /\ result.value[1].action = "Immediate - Start within 1 week"

\* a gap as the caller handed it over: without the two fields the call writes
Unscored(gap) == [f \in DOMAIN gap \ {"priority_score", "action"} |-> gap[f]]

\* result entry e is the input entry g: the same library record, or the caller's
\* dict with the two fields written
SameGap(e, g) ==
    IF IsLibraryObject(g) THEN e = g
    ELSE ~IsLibraryObject(e) /\ Unscored(e) = Unscored(g)

Rearrangements(n) == {p \in [1..n -> 1..n] : \A i, j \in 1..n : i # j => p[i] # p[j]}

ScoreAt(i) == Deref(control_library, result.value[i]).priority_score

\* C11: the list prioritize_remediation returns is a permutation of the input
\* gaps (no gap lost, none duplicated) in which priority_score never increases
\* from one entry to the next, gaps of equal score keeping their input order.
PrioritizedIsStableDescendingPermutation ==
    op = "prioritize_remediation" =>
        /\ result.outcome = "return"
        /\ Len(result.value) = Len(args.gaps)
        /\ \E p \in Rearrangements(Len(args.gaps)) :
             /\ \A i \in DOMAIN result.value : SameGap(result.value[i], args.gaps[p[i]])
             /\ \A i, j \in DOMAIN result.value :
                  i < j => /\ ScoreAt(i) >= ScoreAt(j)
                           /\ ScoreAt(i) = ScoreAt(j) => p[i] < p[j]

\* three gaps handed over as G-3 (125), G-1 (150), G-2 (125): the call moves
\* G-1 to the front and leaves G-3 before G-2
PrioritizedMovesOneKeepsTie ==
    /\ op = "prioritize_remediation"
    /\ Len(args.gaps) = 3
    /\ args.gaps[1].control_id = "G-3"
    /\ args.gaps[2].control_id = "G-1"
    /\ args.gaps[3].control_id = "G-2"
    /\ result.value[1].control_id = "G-1"
    /\ result.value[2].control_id = "G-3"
    /\ result.value[3].control_id = "G-2"
    /\ result.value[2].priority_score = result.value[3].priority_score

\* a prioritize_remediation call on the gaps an analyze_gaps call returned
IsRoundTrip ==
    /\ op = "prioritize_remediation"
    /\ args.origin = "analyze_gaps"

\* the severity part of a catalog priority
CatalogSeverity(priority) ==
    CASE priority = "Critical" -> 100
      [] priority = "High" -> 75
      [] priority = "Medium" -> 50
      [] priority = "Low" -> 25

\* C12: for every supported framework and implemented list, handing the gaps
\* of analyze_gaps to prioritize_remediation does not raise, and every gap,
\* which carries neither complexity nor cost, gets a priority_score computed
\* with both defaults (Medium: 15 and 10) and the action of that score.
AnalyzedGapsPrioritizedWithDefaults ==
    IsRoundTrip =>
        /\ result.outcome = "return"
        /\ Len(result.value) = Len(args.gaps)
        /\ \A i \in DOMAIN result.value :
             LET gap == result.value[i]
             IN  /\ {"priority", "priority_score", "action"} \subseteq DOMAIN gap
                 /\ {"complexity", "cost"} \cap DOMAIN gap = {}
                 /\ gap.priority_score = CatalogSeverity(gap.priority) + 15 + 10
                 /\ BandOf(gap.action) = DocumentedBand(gap.priority_score)

\* the three iso27001 gaps of an empty implemented list, prioritized: a
\* Critical gap scored 100 + 15 + 10
RoundTripScoresCriticalGap ==
    /\ IsRoundTrip
    /\ Len(args.gaps) = 3
    /\ \A i \in 1..3 : {"complexity", "cost", "priority_score"} \cap DOMAIN args.gaps[i] = {}
    /\ \E i \in 1..3 : /\ result.value[i].priority = "Critical"
                        /\ result.value[i].priority_score = 125
                        /\ result.value[i].action = "High Priority - Start within 1 month"

IsExtractCall == op = "_extract_requirements"

\* the matches of one pattern in a text, each with its group trimmed
TaggedMatches(text, k) ==
    LET matches == Matches(text, RequirementPatterns[k])
    IN  [i \in DOMAIN matches |->
            [pattern |-> k, start |-> matches[i].start, group |-> matches[i].group,
             trimmed |-> Strip(matches[i].group)]]

\* the matches of the four patterns in scan order: those of must, of shall,
\* of required to, of mandatory, each pattern's as re.finditer yields them
ScannedMatches(text) ==
    TaggedMatches(text, 1) \o TaggedMatches(text, 2) \o TaggedMatches(text, 3)
        \o TaggedMatches(text, 4)

\* the entry of a match in a list of requirements
IsRequirementOf(req, m) ==
    req = [text |-> m.trimmed, type |-> "mandatory", position |-> m.start]

\* the list `requirements` of a text, before duplicates are removed
Candidates(text) == Requirements(text, Len(RequirementPatterns))

\* C13: _extract_requirements returns no two entries with the same text, and
\* at most 10 entries, for any input text.
RequirementsUniqueAtMostTen ==
    IsExtractCall =>
        /\ result.outcome = "return"
        /\ Len(result.value) <= 10
        /\ \A i, j \in DOMAIN result.value :
             i # j => result.value[i].text # result.value[j].text

\* a text with more than 10 candidate requirements, two of them with the same
\* text: 10 are returned
RepeatedCandidatesCutToTen ==
    /\ IsExtractCall
    /\ LET candidates == Candidates(args.text)
       IN  /\ Len(candidates) > 10
           /\ \E c, d \in DOMAIN candidates : c # d /\ candidates[c].text = candidates[d].text
    /\ Len(result.value) = 10

\* C14 as stated: a captured span is discarded when its trimmed length is
\* shorter than 10 characters and kept as a candidate requirement when it is
\* 10 characters or more.
SpansFromTenKept ==
    IsExtractCall =>
        LET scanned == ScannedMatches(args.text)
            candidates == Candidates(args.text)
        IN  \A m \in DOMAIN scanned :
                (\E c \in DOMAIN candidates : IsRequirementOf(candidates[c], scanned[m]))
                    <=> Len(scanned[m].trimmed) >= 10

\* C14: a captured span is discarded when its trimmed length is 10 characters
\* or less and kept as a candidate requirement when it is 11 characters or
\* more; no returned entry has a text of 10 characters or less.
SpansOverTenKept ==
    IsExtractCall =>
        LET scanned == ScannedMatches(args.text)
            candidates == Candidates(args.text)
        IN  /\ \A m \in DOMAIN scanned :
                 (\E c \in DOMAIN candidates : IsRequirementOf(candidates[c], scanned[m]))
                     <=> Len(scanned[m].trimmed) >= 11
            /\ \A i \in DOMAIN result.value : Len(result.value[i].text) >= 11

\* a text with a span of 10 characters once trimmed, discarded, and a span of
\* 11 characters, returned
SpanOfTenDroppedOfElevenKept ==
    /\ IsExtractCall
    /\ LET scanned == ScannedMatches(args.text)
       IN  /\ \E m \in DOMAIN scanned :
                /\ Len(scanned[m].group) > 10
                /\ Len(scanned[m].trimmed) = 10
                /\ \A i \in DOMAIN result.value : result.value[i].text # scanned[m].trimmed
           /\ \E m \in DOMAIN scanned :
                /\ Len(scanned[m].trimmed) = 11
                /\ \E i \in DOMAIN result.value : IsRequirementOf(result.value[i], scanned[m])

\* C15 as stated: the returned requirements are in document order: of two
\* consecutive entries the position of the earlier is not greater than the
\* position of the later.
RequirementsInDocumentOrder ==
    IsExtractCall =>
        \A i \in 1..(Len(result.value) - 1) :
            result.value[i].position <= result.value[i + 1].position

\* the number of the pattern whose keyword stands at a position of the text
PatternAt(position) ==
    CHOOSE k \in DOMAIN RequirementPatterns :
        ToLower(SubSeq(args.text, position + 1, position + Len(RequirementPatterns[k])))
            = RequirementPatterns[k]

\* C15: the returned requirements are in the order of the patterns (must,
\* shall, required to, mandatory) and, within one pattern, in document
\* order: of two consecutive entries the later is of a later pattern, or of
\* the same pattern at a greater position.
RequirementsInPatternThenDocumentOrder ==
    IsExtractCall =>
        \A i \in 1..(Len(result.value) - 1) :
            LET earlier == result.value[i]
                later == result.value[i + 1]
            IN  \/ PatternAt(earlier.position) < PatternAt(later.position)
                \/ /\ PatternAt(earlier.position) = PatternAt(later.position)
                   /\ earlier.position < later.position

\* a `must` requirement returned before a `shall` requirement that stands
\* earlier in the text
LaterMustBeforeEarlierShall ==
    /\ IsExtractCall
    /\ \E i \in 1..(Len(result.value) - 1) :
         /\ PatternAt(result.value[i].position) = 1
         /\ PatternAt(result.value[i + 1].position) = 2
         /\ result.value[i].position > result.value[i + 1].position

\* of the scanned matches, those that pass the length filter and are the
\* first of their text
FirstOfText(scanned) ==
    {m \in DOMAIN scanned :
        /\ Len(scanned[m].trimmed) > 10
        /\ \A n \in 1..(m - 1) : scanned[n].trimmed # scanned[m].trimmed}

\* C20: _extract_requirements orders and truncates by pattern scan order:
\* the surviving matches of must, then of shall, of required to, of
\* mandatory, each pattern's by increasing position; of equal texts the first
\* in this order is kept; the result is the first 10 of these.
RequirementsFirstTenInScanOrder ==
    IsExtractCall =>
        LET scanned == ScannedMatches(args.text)
            first == FirstOfText(scanned)
        IN  /\ \A m, n \in DOMAIN scanned :
                 (m < n /\ scanned[m].pattern = scanned[n].pattern)
                     => scanned[m].start < scanned[n].start
            /\ Len(result.value) = IF Cardinality(first) < 10 THEN Cardinality(first) ELSE 10
            /\ \A m \in first :
                 LET rank == Cardinality({n \in first : n < m}) + 1
                 IN  rank <= 10 => IsRequirementOf(result.value[rank], scanned[m])

\* a `shall` requirement at the head of the text, dropped for 10 `must`
\* requirements that all stand after it
EarlierShallDroppedForTenMusts ==
    /\ IsExtractCall
    /\ Len(result.value) = 10
    /\ LET scanned == ScannedMatches(args.text)
       IN  \E m \in FirstOfText(scanned) :
               /\ scanned[m].pattern = 2
               /\ \A i \in DOMAIN result.value :
                    /\ PatternAt(result.value[i].position) = 1
                    /\ result.value[i].position > scanned[m].start
                    /\ result.value[i].text # scanned[m].trimmed

IsCompletenessCall == op = "_check_completeness"

\* the documented checklists
DocumentedChecklist(doc_type) ==
    CASE doc_type = "policy" ->
           {"purpose", "scope", "responsibilities", "policy statement", "compliance",
            "review", "effective date"}
      [] doc_type = "procedure" ->
           {"purpose", "scope", "procedure steps", "responsibilities", "references", "records"}
      [] doc_type = "contract" ->
           {"parties", "term", "obligations", "confidentiality", "liability", "termination"}
      [] OTHER -> {}

\* a literal occurs in the text, whatever the case of the text
Occurs(text, literal) ==
    \E p \in 1..(Len(text) - Len(literal) + 1) :
        /\ LowerChar(CharAt(text, p)) = CharAt(literal, 1)
        /\ ToLower(SubSeq(text, p, p + Len(literal) - 1)) = literal

MatchedElements ==
    {e \in DocumentedChecklist(args.doc_type) : Occurs(args.text, e)}

MissingElements == {result.value.missing[i] : i \in DOMAIN result.value.missing}

\* every checklist element is matched or reported missing, never both; an
\* unknown document type has an empty checklist and nothing missing
ChecklistPartitioned ==
    /\ result.outcome = "return"
    /\ result.value.total_required = Cardinality(DocumentedChecklist(args.doc_type))
    /\ LET matched == MatchedElements
       IN  /\ result.value.found = Cardinality(matched)
           /\ MissingElements = DocumentedChecklist(args.doc_type) \ matched
    /\ Len(result.value.missing) = Cardinality(MissingElements)
    /\ Len(result.value.missing) + result.value.found = result.value.total_required
    /\ result.value.score >= 0
    /\ result.value.score <= 1000
    /\ result.value.total_required = 0 => result.value.score = 1000

\* C16 as stated: the score equals matched/total*100 (score in tenths).
CompletenessScoreExact ==
    IsCompletenessCall =>
        /\ ChecklistPartitioned
        /\ result.value.total_required > 0 =>
             result.value.score * result.value.total_required = result.value.found * 1000

\* C16: for policy, procedure and contract, _check_completeness returns a
\* score in [0,100] equal to matched/total*100 rounded to 1 decimal, the
\* missing and the matched elements partition the checklist; for an unknown
\* document type the checklist is empty, the score 100 and nothing missing.
CompletenessScoreRounded ==
    IsCompletenessCall =>
        /\ ChecklistPartitioned
        /\ result.value.total_required > 0 =>
             LET distance == result.value.score * result.value.total_required
                                 - result.value.found * 1000
             IN  /\ 2 * distance <= result.value.total_required
                 /\ 2 * distance >= 0 - result.value.total_required

\* a policy naming 3 of the 7 elements: 42.9, not 300/7
PolicyThreeOfSeven ==
    /\ IsCompletenessCall
    /\ args.doc_type = "policy"
    /\ Cardinality(MatchedElements) = 3
    /\ result.value.score = 429
    /\ Len(result.value.missing) = 4

\* a predict_emerging_risks call in which every current risk has a name
IsPredictCall ==
    /\ op = "predict_emerging_risks"
    /\ \A i \in DOMAIN args.current_risks : "name" \in DOMAIN args.current_risks[i]

\* the documented catalog: the names of each industry, in catalog order
DocumentedEmergingRisks(industry) ==
    CASE industry = "technology" ->
           <<"AI/ML Security Vulnerabilities", "Supply Chain Software Risks">>
      [] industry = "finance" ->
           <<"Regulatory Compliance Changes", "Digital Payment Fraud">>
      [] industry = "healthcare" ->
           <<"Ransomware Targeting Healthcare", "Medical Device Security">>
      [] OTHER -> <<>>

\* the catalog names of the industry of the call that no current risk has,
\* whatever the case
SurvivingNames ==
    SelectSeq(DocumentedEmergingRisks(ToLower(args.industry)),
              LAMBDA name : \A i \in DOMAIN args.current_risks :
                                ToLower(args.current_risks[i].name) # ToLower(name))

\* the entries returned are the surviving entries, each with predicted_impact 4
SurvivorsReturned ==
    /\ result.outcome = "return"
    /\ Len(result.value) = Len(SurvivingNames)
    /\ \A i \in DOMAIN result.value :
         /\ result.value[i].name = SurvivingNames[i]
         /\ result.value[i].predicted_impact = 4

\* C17 as stated: every surviving entry gets predicted_likelihood =
\* probability*5 rounded to the nearest integer, and predicted_impact = 4
\* (probability in hundredths).
PredictedLikelihoodIsNearest ==
    IsPredictCall =>
        /\ SurvivorsReturned
        /\ \A i \in DOMAIN result.value :
             LET distance == result.value[i].predicted_likelihood * 100
                                 - result.value[i].probability * 5
             IN  distance <= 50 /\ distance >= -50

\* C17: for every industry key and every catalog entry that survives the
\* current-risk filter, predict_emerging_risks attaches predicted_likelihood
\* = probability*5 with the fraction cut off, and predicted_impact = 4.
PredictedLikelihoodIsIntegerPart ==
    IsPredictCall =>
        /\ SurvivorsReturned
        /\ \A i \in DOMAIN result.value :
             LET distance == result.value[i].probability * 5
                                 - result.value[i].predicted_likelihood * 100
             IN  distance >= 0 /\ distance < 100

\* technology with one of its two risks already known: the other, of
\* probability 0.75, gets likelihood 3 where 3.75 is nearer to 4
TechnologyRiskOfThreeQuarters ==
    /\ IsPredictCall
    /\ ToLower(args.industry) = "technology"
    /\ Len(args.current_risks) = 1
    /\ Len(result.value) = 1
    /\ result.value[1].probability = 75
    /\ result.value[1].predicted_likelihood = 3
    /\ result.value[1].predicted_impact = 4

IsTrendCall == op = "analyze_risk_trends"

\* the first 7 characters of the identified_date of a risk of the call
BucketOf(i) ==
    LET risk == args.historical_risks[i]
        date == IF "identified_date" \in DOMAIN risk THEN risk.identified_date ELSE ""
    IN  IF Len(date) <= 7 THEN date ELSE SubSeq(date, 1, 7)

Buckets == {BucketOf(i) : i \in DOMAIN args.historical_risks}

BucketCount(month) == Cardinality({i \in DOMAIN args.historical_risks : BucketOf(i) = month})

\* the number of buckets that sort before a month
BucketsBefore(month) == Cardinality({b \in Buckets : StringLess(b, month)})

\* the sum of the counts of the buckets with lo <= number of buckets before < hi
WindowSum(lo, hi) ==
    LET window == {b \in Buckets : BucketsBefore(b) >= lo /\ BucketsBefore(b) < hi}
        RECURSIVE Sum(_)
        Sum(S) == IF S = {} THEN 0
                  ELSE LET b == CHOOSE x \in S : TRUE IN BucketCount(b) + Sum(S \ {b})
    IN  Sum(window)

\* the documented trend, on exact numbers: the two means are over the same
\* number of months, so the sums are compared
DocumentedTrend ==
    LET n == Cardinality(Buckets)
        width == IF n < 3 THEN n ELSE 3
        recent == WindowSum(n - width, n)
        older == WindowSum(0, width)
    IN  IF n < 2 THEN "insufficient_data"
        ELSE IF 5 * recent > 6 * older THEN "increasing"
        ELSE IF 5 * recent < 4 * older THEN "decreasing"
        ELSE "stable"

\* C18: analyze_risk_trends buckets the risks by the first 7 characters of
\* identified_date; fewer than 2 months: insufficient_data; otherwise
\* increasing when the mean of the last min(3, n) months is above 1.2 times
\* the mean of the first min(3, n), decreasing when below 0.8 times, else
\* stable; for every input, the empty list included, the result carries
\* total_risks = number of risks and monthly_data = the per-month counts.
TrendsAsDocumented ==
    IsTrendCall =>
        /\ result.outcome = "return"
        /\ result.value.trend = DocumentedTrend
        /\ "total_risks" \in DOMAIN result.value
        /\ result.value.total_risks = Len(args.historical_risks)
        /\ "monthly_data" \in DOMAIN result.value
        /\ DOMAIN result.value.monthly_data = Buckets
        /\ \A month \in Buckets : result.value.monthly_data[month] = BucketCount(month)

\* what the lines are about: the gaps of an analyze_gaps result, or the gaps
\* handed to _generate_recommendations
RecommendedGaps ==
    IF op = "analyze_gaps" THEN result.value.gaps ELSE args.gaps

RecommendationLines ==
    IF op = "analyze_gaps" THEN result.value.recommendations ELSE result.value

IsRecommendationsCall ==
    \/ IsGapCall /\ result.outcome = "return"
    \/ op = "_generate_recommendations"

GapsOfCategory(category) ==
    {i \in DOMAIN RecommendedGaps : RecommendedGaps[i].category = category}

FirstGapOfCategory(category) ==
    CHOOSE i \in GapsOfCategory(category) : \A j \in GapsOfCategory(category) : i <= j

CriticalGaps == {i \in DOMAIN RecommendedGaps : RecommendedGaps[i].priority = "Critical"}

\* C19: with no gap the recommendations are exactly one congratulatory line;
\* otherwise first one URGENT line with the number of Critical gaps, if and
\* only if there is a Critical gap, then exactly one line per distinct gap
\* category, by descending gap count, equal counts in the order in which the
\* categories are first met in the gaps.
RecommendationLinesByCount ==
    IsRecommendationsCall =>
        LET lines == RecommendationLines
            categories == {RecommendedGaps[i].category : i \in DOMAIN RecommendedGaps}
            urgent == IF CriticalGaps = {} THEN 0 ELSE 1
        IN  IF RecommendedGaps = <<>>
            THEN Len(lines) = 1 /\ lines[1].line = "Great! No gaps identified"
            ELSE /\ Len(lines) = urgent + Cardinality(categories)
                 /\ urgent = 1 =>
                      lines[1].line = "URGENT" /\ lines[1].count = Cardinality(CriticalGaps)
                 /\ \A k \in (urgent + 1)..Len(lines) :
                      /\ lines[k].line = "Focus on"
                      /\ lines[k].category \in categories
                      /\ lines[k].count = Cardinality(GapsOfCategory(lines[k].category))
                 /\ \A k, l \in (urgent + 1)..Len(lines) :
                      k < l =>
                        \/ lines[k].count > lines[l].count
                        \/ /\ lines[k].count = lines[l].count
                           /\ FirstGapOfCategory(lines[k].category)
                                < FirstGapOfCategory(lines[l].category)

\* gaps whose second category has more gaps than the first and holds the one
\* Critical gap: URGENT, then the second category, then the first
LargerCategoryMovedAhead ==
    /\ op = "_generate_recommendations"
    /\ Len(args.gaps) = 3
    /\ args.gaps[1].category # args.gaps[2].category
    /\ args.gaps[2].category = args.gaps[3].category
    /\ Cardinality(CriticalGaps) = 1
    /\ Len(result.value) = 3
    /\ result.value[1].line = "URGENT"
    /\ result.value[2].category = args.gaps[2].category
    /\ result.value[2].count = 2
    /\ result.value[3].category = args.gaps[1].category

\* C21: whenever the historical risks fall into exactly 2 or exactly 3
\* month buckets, analyze_risk_trends returns stable whatever the counts,
\* the recent and the earliest window being the same months; increasing or
\* decreasing is returned only with 4 or more month buckets.
FewMonthsAlwaysStable ==
    IsTrendCall =>
        /\ result.outcome = "return"
        /\ Cardinality(Buckets) \in {2, 3} => result.value.trend = "stable"
        /\ result.value.trend \in {"increasing", "decreasing"} => Cardinality(Buckets) >= 4

\* three months, the last with twice the risks of each month before it,
\* reported stable
ThreeRisingMonthsStable ==
    /\ IsTrendCall
    /\ Cardinality(Buckets) = 3
    /\ \E last \in Buckets :
         \A b \in Buckets \ {last} :
             StringLess(b, last) /\ BucketCount(last) = 2 * BucketCount(b)
    /\ result.value.trend = "stable"

\* C22: for every supported framework and implemented list, no gap of
\* analyze_gaps gets the Immediate action from prioritize_remediation: a
\* Critical gap scores 125 and a High gap 100, both labelled High Priority,
\* and every priority_score is in {125, 100, 75, 50}.
AnalyzedGapsNeverImmediate ==
    IsRoundTrip =>
        \A i \in DOMAIN result.value :
            LET gap == result.value[i]
            IN  /\ BandOf(gap.action) # "Immediate"
                /\ gap.priority_score \in {125, 100, 75, 50}
                /\ gap.priority = "Critical" =>
                     gap.priority_score = 125 /\ BandOf(gap.action) = "High Priority"
                /\ gap.priority = "High" =>
                     gap.priority_score = 100 /\ BandOf(gap.action) = "High Priority"

\* the two gdpr gaps of an empty implemented list, prioritized: the Critical
\* one at 125 before the High one at 100, both High Priority
GdprGapsBothHighPriority ==
    /\ IsRoundTrip
    /\ Len(result.value) = 2
    /\ result.value[1].control_id = "Art.32"
    /\ result.value[1].priority = "Critical"
    /\ result.value[1].priority_score = 125
    /\ result.value[2].control_id = "Art.33"
    /\ result.value[2].priority = "High"
    /\ result.value[2].priority_score = 100
    /\ \A i \in 1..2 : result.value[i].action = "High Priority - Start within 1 month"

====
